---- MODULE Spec2Model ----
(***************************************************************************)
(* Model of app/api/endpoints/r2_upload.py: the three handlers of the /r2  *)
(* router (parse_and_upload, list_videos, get_download_url), the crawler,  *)
(* the video GET and the S3-compatible object store they call.             *)
(*                                                                         *)
(* Python values are tagged records: None, a missing dict key (Absent), a  *)
(* local that is not assigned yet (Unset), str, int, bytes and dict.       *)
(* Strings are sequences of symbols; object keys and prefixes are          *)
(* sequences of one-character strings.                                     *)
(***************************************************************************)
EXTENDS Integers, Sequences, FiniteSets, TLC

\* ------------------------------------------------------------ bounds
MaxReqs == 2        \* request slots (concurrent requests in ConcSpec)
MaxLen == 2         \* longest response body of the video GET, in bytes
MaxDay == 2         \* days the wall clock can show
MaxKeysArg == 2     \* largest max_keys a list_videos request asks for

\* ------------------------------------------------------------ values
None == [t |-> "None"]
Absent == [t |-> "absent"]
Unset == [t |-> "unset"]
StrV(s) == [t |-> "str", v |-> s]
IntV(n) == [t |-> "int", v |-> n]
BytesV(b) == [t |-> "bytes", v |-> b]
DictV(d) == [t |-> "dict", v |-> d]

\* bool(x) of a Python value
Truthy(x) ==
  CASE x.t = "None" -> FALSE
    [] x.t = "str" -> x.v # <<>>
    [] x.t = "bytes" -> x.v # <<>>
    [] x.t = "int" -> x.v # 0
    [] x.t = "dict" -> \E k \in DOMAIN x.v : x.v[k] # Absent
    [] OTHER -> FALSE

\* a or b
PyOr(a, b) == IF Truthy(a) THEN a ELSE b

\* d.get(k, default) of a dict d
Get(d, k, default) == IF d.v[k] = Absent THEN default ELSE d.v[k]

DigitChars == <<"0", "1", "2", "3", "4", "5", "6", "7", "8", "9">>

RECURSIVE Decimal(_)
\* str(n) of an int n >= 0
Decimal(n) ==
  IF n < 10 THEN <<DigitChars[n + 1]>>
  ELSE Decimal(n \div 10) \o <<DigitChars[(n % 10) + 1]>>

RECURSIVE ZeroPad(_, _)
\* a decimal left-padded with zeros to width w (strftime's %m, %d, %Y)
ZeroPad(s, w) == IF Len(s) >= w THEN s ELSE ZeroPad(<<"0">> \o s, w)

\* str(x), as an f-string formats x
PyStr(x) ==
  CASE x.t = "str" -> x.v
    [] x.t = "int" -> Decimal(x.v)
    [] x.t = "None" -> <<"N", "o", "n", "e">>
    [] OTHER -> <<"?">>

\* ------------------------------------------------------------ constants
AUTH_TOKEN == StrV(<<"shipit2026">>)

Reqs == 1 .. MaxReqs

\* ------------------------------------------------------------ environment
\* the wall clock's date on day i: 2026-09-30, 2026-10-01, 2026-10-02, ...
DateOf(i) ==
  IF i = 1 THEN [y |-> 2026, m |-> 9, d |-> 30]
  ELSE [y |-> 2026, m |-> 10, d |-> i - 1]

\* the bodies a video GET can return (b"" included)
RECURSIVE SeqsUpTo(_, _)
SeqsUpTo(S, n) ==
  IF n = 0 THEN {<<>>}
  ELSE LET shorter == SeqsUpTo(S, n - 1)
       IN shorter \cup {Append(q, x) : q \in shorter, x \in S}

Bodies == SeqsUpTo({0, 1}, MaxLen)

UrlSlots == {"nwm_video_url_HQ", "nwm_video_url", "wm_video_url_HQ", "wm_video_url"}

\* a candidate URL is missing, empty or the URL of its slot
SlotValues(k) == {Absent, StrV(<<>>), StrV(<<k>>)}

UrlTables == {u \in [UrlSlots -> UNION {SlotValues(k) : k \in UrlSlots}] :
                \A k \in UrlSlots : u[k] \in SlotValues(k)}

FullUrls == [k \in UrlSlots |-> StrV(<<k>>)]

RecordFields == {"type", "video_data", "video_id", "desc", "cover_data"}

EmptyDict == DictV([k \in RecordFields |-> Absent])

VideoRecord(urls) ==
  [type |-> StrV(<<"video">>), video_data |-> DictV(urls),
   video_id |-> StrV(<<"1", "2", "3">>), desc |-> StrV(<<"a">>),
   cover_data |-> DictV([cover |-> StrV(<<"c">>)])]

\* the records the crawler can resolve a share URL to: a video with every
\* combination of candidate URLs, and one record per other field value
CrawlerRecords ==
  {DictV(VideoRecord(u)) : u \in UrlTables}
  \cup {DictV([VideoRecord(FullUrls) EXCEPT !.type = x]) :
          x \in {StrV(<<"image">>), None, Absent}}
  \cup {DictV([VideoRecord(FullUrls) EXCEPT !.video_data = x]) : x \in {None, Absent}}
  \cup {DictV([VideoRecord(FullUrls) EXCEPT !.video_id = x]) :
          x \in {IntV(7), StrV(<<"7">>), None, Absent}}
  \cup {DictV([VideoRecord(FullUrls) EXCEPT !.desc = x]) : x \in {StrV(<<"b", "/">>), Absent}}
  \cup {DictV([VideoRecord(FullUrls) EXCEPT !.cover_data = x]) : x \in {None, Absent}}

\* what hybrid_parsing_single_video can do: return a record, None or {}, or raise
CrawlerOutcomes ==
  {[kind |-> "return", value |-> v, exc |-> "-"] : v \in CrawlerRecords \cup {None, EmptyDict}}
  \cup {[kind |-> "raise", value |-> None, exc |-> e] : e \in {"ValueError", "Exception"}}

\* the records of a concurrent run: one video, its cover_data a dict or None
ConcOutcomes ==
  {[kind |-> "return", value |-> v, exc |-> "-"] :
     v \in {DictV(VideoRecord(FullUrls)),
            DictV([VideoRecord(FullUrls) EXCEPT !.cover_data = None])}}

\* what the GET can do: a 2xx with a body, a non-2xx status, a transport error
GetOutcomes ==
  {[kind |-> "ok", body |-> b] : b \in Bodies}
  \cup {[kind |-> k, body |-> <<>>] : k \in {"status_error", "transport_error"}}

StoreOutcomes == {"ok", "error"}

Qualities == {"high", "low", "watermark", "other"}

AuthHeaders == {Absent, AUTH_TOKEN, StrV(<<"wrong">>), StrV(<<>>)}

Douyin == <<"d", "o", "u", "y", "i", "n", "/">>

Prefixes == {<<>>, Douyin, Douyin \o <<"2", "0", "2", "6", "/", "0", "9", "/">>, <<"m">>}

MaxKeysArgs == -1 .. MaxKeysArg

\* bucket contents left by earlier requests
Key1 == Douyin \o <<"2", "0", "2", "6", "/", "0", "9", "/", "3", "0", "/", "1", "2", "3", ".", "m", "p", "4">>
Key2 == Douyin \o <<"2", "0", "2", "6", "/", "0", "8", "/", "0", "1", "/", "7", ".", "m", "p", "4">>
Key3 == <<"m", "/", "a">>

StoreInits ==
  {<<>>,
   (Key1 :> <<1>>),
   (Key1 :> <<1>>) @@ (Key2 :> <<0, 1>>) @@ (Key3 :> <<>>)}

Paths == {Absent, StrV(Key1), StrV(Key3)}

\* ------------------------------------------------------------ state
VARIABLES
  req,      \* per request slot: the handler's position, inputs, locals and response
  calls,    \* per request slot: the external calls the handler has made, in order
  store,    \* the bucket: object key -> body
  putLog,   \* the successful put_object calls, in the order the store applied them
  got,      \* per request slot: what the video GET answered
  clock     \* the day the wall clock shows

vars == <<req, calls, store, putLog, got, clock>>

IdleReq ==
  [pc |-> "idle", endpoint |-> "-", auth |-> Unset, bodyOk |-> TRUE, quality |-> "-",
   prefix |-> <<>>, max_keys |-> 0, path |-> Unset, expires_in |-> 0,
   video_data |-> Unset, download_url |-> Unset, video_content |-> Unset,
   object_key |-> Unset, resp |-> Unset]

NoData == [kind |-> "none"]

NoGet == [kind |-> "none", body |-> <<>>]

\* an HTTPException(status_code, detail), or a framework error response
ErrorResp(status, msg, arg) ==
  [status |-> status, detail |-> [msg |-> msg, arg |-> arg], data |-> NoData]

OkResp(data) == [status |-> 200, detail |-> [msg |-> "-", arg |-> <<>>], data |-> data]

Finish(rq, resp) == [rq EXCEPT !.pc = "done", !.resp = resp]

\* ------------------------------------------------------------ helpers
verify_auth(auth) ==
  LET a == IF auth = Absent THEN None ELSE auth
  IN IF a # AUTH_TOKEN THEN ErrorResp(401, "invalid_auth_token", <<>>) ELSE OkResp(NoData)

\* Strftime with %-m and %-d: no zero padding
StrftimeNoPad(dt) ==
  ZeroPad(Decimal(dt.y), 4) \o <<"/">> \o Decimal(dt.m) \o <<"/">> \o Decimal(dt.d)

\* now.strftime("%Y/%m/%d")
Strftime(dt) ==
  ZeroPad(Decimal(dt.y), 4) \o <<"/">> \o ZeroPad(Decimal(dt.m), 2) \o <<"/">>
    \o ZeroPad(Decimal(dt.d), 2)

\* f"douyin/{date_path}/{video_id}.mp4"
ObjectKey(date_path, video_id) ==
  Douyin \o date_path \o <<"/">> \o PyStr(video_id) \o <<".", "m", "p", "4">>

\* SelectUrl with the low branch a copy of the high branch
SelectUrlLowAsHigh(quality, video_urls) ==
  IF quality = "high" \/ quality = "low"
  THEN PyOr(Get(video_urls, "nwm_video_url_HQ", None), Get(video_urls, "nwm_video_url", None))
  ELSE PyOr(Get(video_urls, "wm_video_url_HQ", None), Get(video_urls, "wm_video_url", None))

\* the quality-preference chain; .get(k) defaults to None
SelectUrl(quality, video_urls) ==
  IF quality = "high"
  THEN PyOr(Get(video_urls, "nwm_video_url_HQ", None), Get(video_urls, "nwm_video_url", None))
  ELSE IF quality = "low"
  THEN PyOr(Get(video_urls, "nwm_video_url", None), Get(video_urls, "nwm_video_url_HQ", None))
  ELSE PyOr(Get(video_urls, "wm_video_url_HQ", None), Get(video_urls, "wm_video_url", None))

\* ExceptResp without the except ValueError clause
ExceptRespAll500(exc, msg, arg) == ErrorResp(500, "processing_failed", <<msg>> \o arg)

\* the except clauses of parse_and_upload: ValueError -> 400, anything else -> 500
ExceptResp(exc, msg, arg) ==
  IF exc = "ValueError" THEN ErrorResp(400, msg, arg)
  ELSE ErrorResp(500, "processing_failed", <<msg>> \o arg)

\* s3_client.put_object: the store replaces the object at the key as a whole
PutObject(st, key, body) ==
  [k \in DOMAIN st \cup {key} |-> IF k = key THEN body ELSE st[k]]

IsPrefix(p, k) == Len(p) <= Len(k) /\ SubSeq(k, 1, Len(p)) = p

Min(a, b) == IF a <= b THEN a ELSE b

RECURSIVE SetToSeq(_)
SetToSeq(S) ==
  IF S = {} THEN <<>>
  ELSE LET x == CHOOSE y \in S : TRUE IN <<x>> \o SetToSeq(S \ {x})

\* what list_objects_v2(Prefix, MaxKeys) can answer: an error for a negative
\* MaxKeys, else MaxKeys (at most 1000) of the keys under the prefix
ListObjects(st, prefix, max_keys) ==
  LET matching == {k \in DOMAIN st : IsPrefix(prefix, k)}
      n == Min(Min(max_keys, 1000), Cardinality(matching))
  IN IF max_keys < 0 THEN {[err |-> TRUE, keys |-> {}]}
     ELSE {[err |-> FALSE, keys |-> T] : T \in {U \in SUBSET matching : Cardinality(U) = n}}

\* ------------------------------------------------------------ parse_and_upload
Step(rq, cs) == [rq |-> rq, calls |-> cs]

\* request validation by the framework (the Auth header and the body are
\* required), the token check, then the call of the crawler
EnterParse(rq) ==
  IF rq.auth = Absent \/ ~rq.bodyOk
  THEN Step(Finish(rq, ErrorResp(422, "validation_error", <<>>)), <<>>)
  ELSE IF rq.auth # AUTH_TOKEN
  THEN Step(Finish(rq, ErrorResp(401, "invalid_auth_token", <<>>)), <<>>)
  ELSE Step([rq EXCEPT !.pc = "await_crawler"], <<[op |-> "crawler"]>>)

\* from the crawler's answer to the GET of the selected URL
AfterCrawler(rq, o) ==
  IF o.kind = "raise"
  THEN Step(Finish(rq, ExceptResp(o.exc, "crawler_raised", <<>>)), <<>>)
  ELSE
    LET vd == o.value
        rq1 == [rq EXCEPT !.video_data = vd]
    IN IF ~Truthy(vd)
       THEN Step(Finish(rq1, ExceptResp("ValueError", "cannot_parse_video", <<>>)), <<>>)
       ELSE IF Get(vd, "type", None) # StrV(<<"video">>)
       THEN Step(Finish(rq1, ExceptResp("ValueError", "only_video_supported",
                                        PyStr(Get(vd, "type", None)))), <<>>)
       ELSE
         LET video_urls == Get(vd, "video_data", DictV([k \in UrlSlots |-> Absent]))
         IN IF video_urls.t # "dict"
            THEN Step(Finish(rq1, ExceptResp("AttributeError", "no_attribute_get", <<>>)), <<>>)
            ELSE
              LET download_url == SelectUrl(rq.quality, video_urls)
              IN IF ~Truthy(download_url)
                 THEN Step(Finish(rq1, ExceptResp("ValueError", "no_download_url", <<>>)), <<>>)
                 ELSE Step([rq1 EXCEPT !.pc = "await_get", !.download_url = download_url],
                           <<[op |-> "get", url |-> download_url]>>)

\* download_video without raise_for_status: the body of an error response is returned
download_videoNoRaise(o) ==
  IF o.kind = "ok" THEN [raised |-> "-", content |-> BytesV(o.body)]
  ELSE IF o.kind = "status_error" THEN [raised |-> "-", content |-> BytesV(<<0>>)]
  ELSE [raised |-> o.kind, content |-> Unset]

\* download_video's result: raise_for_status and transport errors raise
download_video(o) ==
  IF o.kind = "ok" THEN [raised |-> "-", content |-> BytesV(o.body)]
  ELSE [raised |-> o.kind, content |-> Unset]

\* from the GET's answer to the put_object call
AfterGet(rq, o, today) ==
  LET dl == download_video(o)
  IN IF dl.raised # "-"
     THEN Step(Finish(rq, ExceptResp(dl.raised, "download_raised", <<>>)), <<>>)
     ELSE
       LET rq1 == [rq EXCEPT !.video_content = dl.content]
       IN IF ~Truthy(dl.content)
          THEN Step(Finish(rq1, ExceptResp("ValueError", "download_failed", <<>>)), <<>>)
          ELSE
            LET date_path == Strftime(DateOf(today))
                video_id == Get(rq.video_data, "video_id", StrV(<<"u", "n", "k", "n", "o", "w", "n">>))
                object_key == StrV(ObjectKey(date_path, video_id))
            IN Step([rq1 EXCEPT !.pc = "in_put", !.object_key = object_key],
                    <<[op |-> "put", key |-> object_key.v, body |-> rq1.video_content.v]>>)

\* upload_to_r2 that sends only the first byte of the content
upload_to_r2FirstByte(st, file_content, object_key) ==
  PutObject(st, object_key.v, SubSeq(file_content.v, 1, 1))

\* upload_to_r2: the store after the put
upload_to_r2(st, file_content, object_key) == PutObject(st, object_key.v, file_content.v)

\* from the put's answer to the response
AfterPut(rq, o) ==
  IF o # "ok"
  THEN Finish(rq, ExceptResp("ClientError", "put_object_raised", <<>>))
  ELSE
    LET cover_data == Get(rq.video_data, "cover_data", DictV([cover |-> Absent]))
    IN IF cover_data.t # "dict"
       THEN Finish(rq, ExceptResp("AttributeError", "no_attribute_get", <<>>))
       ELSE Finish(rq, OkResp([kind |-> "upload", path |-> rq.object_key.v,
                               file_size |-> Len(rq.video_content.v),
                               quality |-> rq.quality]))

\* ------------------------------------------------------------ list_videos, get_download_url
\* ListContents without MaxKeys=max_keys: the store's own page size applies
ListContentsNoMaxKeys(rq, st) == ListObjects(st, rq.prefix, 1000)

\* the listing the handler asks the store for
ListContents(rq, st) == ListObjects(st, rq.prefix, rq.max_keys)

\* the projection of the store's Contents to the response
ListResp(st, contents) ==
  LET videos == [i \in 1 .. Len(contents) |->
                   [key |-> contents[i], size |-> Len(st[contents[i]])]]
  IN OkResp([kind |-> "list", count |-> Len(videos), videos |-> videos])

list_r2_videos(rq, st, o, answer) ==
  IF o # "ok" \/ answer.err
  THEN Finish(rq, ErrorResp(500, "list_failed", <<>>))
  ELSE Finish(rq, ListResp(st, SetToSeq(answer.keys)))

get_video_download_url(rq, o) ==
  IF rq.path = Absent
  THEN Finish(rq, ErrorResp(422, "validation_error", <<>>))
  ELSE IF o # "ok"
  THEN Finish(rq, ErrorResp(500, "presign_failed", <<>>))
  ELSE Finish(rq, OkResp([kind |-> "url", path |-> rq.path.v,
                          download_url |-> <<"signed", rq.path.v, rq.expires_in>>,
                          expires_in |-> rq.expires_in]))

\* ------------------------------------------------------------ actions
AllIdle == \A r \in Reqs : req[r].pc = "idle"

\* the slots are interchangeable: a new request takes the first free one
FirstFree(r) == req[r].pc = "idle" /\ \A q \in Reqs : q < r => req[q].pc # "idle"

\* a client sends POST /r2/parse_and_upload
SendParse(r, auth, bodyOk, quality) ==
  /\ FirstFree(r)
  /\ req' = [req EXCEPT ![r] = [IdleReq EXCEPT !.pc = "received",
                                  !.endpoint = "parse_and_upload", !.auth = auth,
                                  !.bodyOk = bodyOk, !.quality = quality]]
  /\ UNCHANGED <<calls, store, putLog, got, clock>>

\* a client sends GET /r2/list_videos
SendList(r, auth, prefix, max_keys) ==
  /\ FirstFree(r)
  /\ req' = [req EXCEPT ![r] = [IdleReq EXCEPT !.pc = "received",
                                  !.endpoint = "list_videos", !.auth = auth,
                                  !.prefix = prefix, !.max_keys = max_keys]]
  /\ UNCHANGED <<calls, store, putLog, got, clock>>

\* a client sends GET /r2/get_download_url
SendPresign(r, auth, path, expires_in) ==
  /\ FirstFree(r)
  /\ req' = [req EXCEPT ![r] = [IdleReq EXCEPT !.pc = "received",
                                  !.endpoint = "get_download_url", !.auth = auth,
                                  !.path = path, !.expires_in = expires_in]]
  /\ UNCHANGED <<calls, store, putLog, got, clock>>

ParseEnter(r) ==
  /\ req[r].pc = "received"
  /\ req[r].endpoint = "parse_and_upload"
  /\ LET s == EnterParse(req[r])
     IN /\ req' = [req EXCEPT ![r] = s.rq]
        /\ calls' = [calls EXCEPT ![r] = @ \o s.calls]
  /\ UNCHANGED <<store, putLog, got, clock>>

CrawlerReturn(r, o) ==
  /\ req[r].pc = "await_crawler"
  /\ LET s == AfterCrawler(req[r], o)
     IN /\ req' = [req EXCEPT ![r] = s.rq]
        /\ calls' = [calls EXCEPT ![r] = @ \o s.calls]
  /\ UNCHANGED <<store, putLog, got, clock>>

GetReturn(r, o) ==
  /\ req[r].pc = "await_get"
  /\ LET s == AfterGet(req[r], o, clock)
     IN /\ req' = [req EXCEPT ![r] = s.rq]
        /\ calls' = [calls EXCEPT ![r] = @ \o s.calls]
  /\ got' = [got EXCEPT ![r] = o]
  /\ UNCHANGED <<store, putLog, clock>>

PutReturn(r, o) ==
  /\ req[r].pc = "in_put"
  /\ req' = [req EXCEPT ![r] = AfterPut(req[r], o)]
  /\ store' = IF o = "ok" THEN upload_to_r2(store, req[r].video_content, req[r].object_key)
              ELSE store
  /\ putLog' = IF o = "ok"
               THEN Append(putLog, [r |-> r, key |-> req[r].object_key.v,
                                    body |-> req[r].video_content.v])
               ELSE putLog
  /\ UNCHANGED <<calls, got, clock>>

ListVideos(r, o) ==
  /\ req[r].pc = "received"
  /\ req[r].endpoint = "list_videos"
  /\ \E answer \in ListContents(req[r], store) :
       req' = [req EXCEPT ![r] = list_r2_videos(req[r], store, o, answer)]
  /\ calls' = [calls EXCEPT ![r] = Append(@, [op |-> "list"])]
  /\ UNCHANGED <<store, putLog, got, clock>>

GetDownloadUrl(r, o) ==
  /\ req[r].pc = "received"
  /\ req[r].endpoint = "get_download_url"
  /\ req' = [req EXCEPT ![r] = get_video_download_url(req[r], o)]
  /\ calls' = [calls EXCEPT ![r] = IF req[r].path = Absent THEN @
                                   ELSE Append(@, [op |-> "presign"])]
  /\ UNCHANGED <<store, putLog, got, clock>>

\* midnight
Tick ==
  /\ clock < MaxDay
  /\ clock' = clock + 1
  /\ UNCHANGED <<req, calls, store, putLog, got>>

\* ------------------------------------------------------------ specifications
\* one request, of any endpoint and input, against a bucket earlier requests filled
Init ==
  /\ req = [r \in Reqs |-> IdleReq]
  /\ calls = [r \in Reqs |-> <<>>]
  /\ store \in StoreInits
  /\ putLog = <<>>
  /\ got = [r \in Reqs |-> NoGet]
  /\ clock = 1

Progress(r) ==
  \/ ParseEnter(r)
  \/ \E o \in CrawlerOutcomes : CrawlerReturn(r, o)
  \/ \E o \in GetOutcomes : GetReturn(r, o)
  \/ \E o \in StoreOutcomes : PutReturn(r, o)
  \/ \E o \in StoreOutcomes : ListVideos(r, o)
  \/ \E o \in StoreOutcomes : GetDownloadUrl(r, o)

Next ==
  \/ \E r \in Reqs, a \in AuthHeaders, b \in BOOLEAN, q \in Qualities :
       AllIdle /\ SendParse(r, a, b, q)
  \/ \E r \in Reqs, a \in AuthHeaders, p \in Prefixes, m \in MaxKeysArgs :
       AllIdle /\ SendList(r, a, p, m)
  \/ \E r \in Reqs, a \in AuthHeaders, p \in Paths, e \in {3600, 60} :
       AllIdle /\ SendPresign(r, a, p, e)
  \/ \E r \in Reqs : Progress(r)
  \/ Tick

Spec == Init /\ [][Next]_vars

\* every call a handler awaits returns (the GET within its 120 s timeout)
FairSpec == Spec /\ \A r \in Reqs : WF_vars(Progress(r))

\* MaxReqs concurrent uploads of the same video into an empty bucket
ConcInit ==
  /\ req = [r \in Reqs |-> IdleReq]
  /\ calls = [r \in Reqs |-> <<>>]
  /\ store = <<>>
  /\ putLog = <<>>
  /\ got = [r \in Reqs |-> NoGet]
  /\ clock = 1

ConcNext ==
  \/ \E r \in Reqs, q \in {"high", "low"} : SendParse(r, AUTH_TOKEN, TRUE, q)
  \/ \E r \in Reqs : ParseEnter(r)
  \/ \E r \in Reqs, o \in ConcOutcomes : CrawlerReturn(r, o)
  \/ \E r \in Reqs, o \in {g \in GetOutcomes : g.kind = "ok" /\ g.body # <<>>} : GetReturn(r, o)
  \/ \E r \in Reqs, o \in StoreOutcomes : PutReturn(r, o)
  \/ Tick

ConcSpec == ConcInit /\ [][ConcNext]_vars

\* ------------------------------------------------------------ properties
Done(r) == req[r].pc = "done"

Ops(r) == [i \in 1 .. Len(calls[r]) |-> calls[r][i].op]

Wrote(r) == \E i \in 1 .. Len(putLog) : putLog[i].r = r

IsParse(r) == req[r].endpoint = "parse_and_upload"

\* C1: a parse_and_upload request (with a well-formed body) whose Auth header is
\* missing or differs from the shared secret ends with 401 and has called neither
\* the crawler, the video GET nor the store.
C1_BadAuthIs401 ==
  \A r \in Reqs :
    (Done(r) /\ IsParse(r) /\ req[r].bodyOk /\ req[r].auth # AUTH_TOKEN)
      => (req[r].resp.status = 401 /\ calls[r] = <<>>)

\* C2: a list_videos or get_download_url request (with well-formed query
\* parameters) whose Auth header differs from the shared secret ends with 401 and
\* has made no call to the store; the parse_and_upload case is C1's.
C2_EveryEndpointRejectsBadAuth ==
  \A r \in Reqs :
    (Done(r) /\ ~IsParse(r) /\ req[r].path # Absent /\ req[r].auth # AUTH_TOKEN)
      => (req[r].resp.status = 401 /\ calls[r] = <<>>)

\* C3: a parse_and_upload request that ends with a 4xx/5xx response has written no
\* object to the store.
C3_NoPartialSuccess ==
  \A r \in Reqs :
    (Done(r) /\ IsParse(r) /\ req[r].resp.status >= 400) => ~Wrote(r)

\* the request has resolved a video record whose URL table is a dict
Resolved(r) ==
  /\ IsParse(r)
  /\ req[r].video_data.t = "dict"
  /\ req[r].video_data.v.type = StrV(<<"video">>)
  /\ req[r].video_data.v.video_data.t = "dict"

Available(r, k) ==
  /\ req[r].video_data.v.video_data.v[k] # Absent
  /\ req[r].video_data.v.video_data.v[k] # StrV(<<>>)

FirstChoice(q) ==
  CASE q = "high" -> "nwm_video_url_HQ"
    [] q = "low" -> "nwm_video_url"
    [] q = "watermark" -> "wm_video_url_HQ"

SecondChoice(q) ==
  CASE q = "high" -> "nwm_video_url"
    [] q = "low" -> "nwm_video_url_HQ"
    [] q = "watermark" -> "wm_video_url"

GetUrls(r) == {calls[r][i].url : i \in {j \in 1 .. Len(calls[r]) : calls[r][j].op = "get"}}

\* C4: for quality high, low or watermark the URL downloaded is the first choice of
\* the policy if it is present and non-empty, else the second choice; if neither is
\* available the request ends with 400 and no GET is issued at all.
C4_QualityChain ==
  \A r \in Reqs :
    (Resolved(r) /\ req[r].quality \in {"high", "low", "watermark"})
      => LET first == FirstChoice(req[r].quality)
             second == SecondChoice(req[r].quality)
             urls == req[r].video_data.v.video_data.v
         IN IF Available(r, first)
            THEN GetUrls(r) = {urls[first]} /\ req[r].download_url = urls[first]
            ELSE IF Available(r, second)
            THEN GetUrls(r) = {urls[second]} /\ req[r].download_url = urls[second]
            ELSE /\ Done(r)
                 /\ req[r].resp.status = 400
                 /\ GetUrls(r) = {}

\* C4's case: high was asked for, only the standard no-watermark URL (and both
\* watermark URLs) exist, and the upload went through with the standard URL
C4_Witness ==
  \E r \in Reqs :
    /\ Resolved(r) /\ Done(r) /\ req[r].resp.status = 200
    /\ req[r].quality = "high"
    /\ ~Available(r, "nwm_video_url_HQ")
    /\ Available(r, "wm_video_url_HQ")
    /\ req[r].download_url = StrV(<<"nwm_video_url">>)

\* the crawler answered None or {}
ResolvedNothing(r) == IsParse(r) /\ req[r].video_data \in {None, EmptyDict}

\* the crawler answered a record whose type is not "video"
ResolvedNonVideo(r) ==
  /\ IsParse(r)
  /\ req[r].video_data.t = "dict"
  /\ req[r].video_data # EmptyDict
  /\ req[r].video_data.v.type # StrV(<<"video">>)

\* C5: when the crawler returns nothing or a record that is not a video the request
\* ends with 400, a non-video record's message names its type, and the only
\* external call of the request is the crawler's.
C5_NotAVideoIs400 ==
  \A r \in Reqs :
    /\ (ResolvedNothing(r) \/ ResolvedNonVideo(r))
          => (Done(r) /\ req[r].resp.status = 400 /\ Ops(r) = <<"crawler">>)
    /\ ResolvedNonVideo(r)
          => /\ req[r].resp.detail.msg = "only_video_supported"
             /\ req[r].resp.detail.arg =
                   IF req[r].video_data.v.type.t = "str"
                   THEN req[r].video_data.v.type.v
                   ELSE <<"N", "o", "n", "e">>

\* C5's case: the crawler resolved an image
C5_Witness ==
  \E r \in Reqs :
    /\ ResolvedNonVideo(r) /\ Done(r)
    /\ req[r].resp.detail.arg = <<"image">>

Uploaded(r) == Done(r) /\ IsParse(r) /\ req[r].resp.status = 200

PutCalls(r) == {i \in 1 .. Len(calls[r]) : calls[r][i].op = "put"}

TwoDigits(n) == <<DigitChars[(n \div 10) + 1], DigitChars[(n % 10) + 1]>>

FourDigits(n) == TwoDigits(n \div 100) \o TwoDigits(n % 100)

\* the text of the record's video_id ("unknown" when the record has none; the
\* int ids of the model have one digit)
IdText(vd) ==
  LET x == vd.v.video_id
  IN CASE x = Absent -> <<"u", "n", "k", "n", "o", "w", "n">>
       [] x = None -> <<"N", "o", "n", "e">>
       [] x.t = "int" -> <<DigitChars[x.v + 1]>>
       [] x.t = "str" -> x.v

\* douyin/{yyyy}/{mm}/{dd}/{video_id}.mp4
ExpectedKey(dt, vd) ==
  <<"d", "o", "u", "y", "i", "n", "/">> \o FourDigits(dt.y) \o <<"/">> \o TwoDigits(dt.m)
    \o <<"/">> \o TwoDigits(dt.d) \o <<"/">> \o IdText(vd) \o <<".", "m", "p", "4">>

\* C6: the key handed to put_object is douyin/{yyyy}/{mm}/{dd}/{video_id}.mp4 of
\* the resolved video_id and of the date the clock shows when the key is computed
\* (month and day zero-padded), whatever the description and the quality are, and
\* the r2_storage.path of a 200 response is that key.
C6_KeyFormat ==
  [][\A r \in Reqs :
       /\ (req[r].pc = "await_get" /\ req'[r].pc = "in_put")
            => /\ req'[r].object_key = StrV(ExpectedKey(DateOf(clock), req[r].video_data))
               /\ calls'[r][Len(calls'[r])].op = "put"
               /\ calls'[r][Len(calls'[r])].key = req'[r].object_key.v
       /\ (req[r].pc = "in_put" /\ req'[r].pc = "done" /\ req'[r].resp.status = 200)
            => /\ req'[r].resp.data.path = req[r].object_key.v
               /\ putLog'[Len(putLog')].key = req[r].object_key.v]_vars

\* C6's case: video_id "123" uploaded on 2026-09-30
C6_Witness ==
  \E r \in Reqs :
    /\ Uploaded(r)
    /\ req[r].video_data.v.video_id = StrV(<<"1", "2", "3">>)
    /\ req[r].resp.data.path =
         <<"d", "o", "u", "y", "i", "n", "/", "2", "0", "2", "6", "/", "0", "9", "/", "3", "0",
           "/", "1", "2", "3", ".", "m", "p", "4">>

\* C7: for a successful upload the body handed to put_object, and stored at the
\* key, is the body the one video GET returned, and file_size is its length.
C7_BytesEndToEnd ==
  \A r \in Reqs :
    Uploaded(r)
      => /\ got[r].kind = "ok"
         /\ Cardinality(GetUrls(r)) = 1
         /\ \A i \in PutCalls(r) : calls[r][i].body = got[r].body
         /\ PutCalls(r) # {}
         /\ store[req[r].resp.data.path] = got[r].body
         /\ req[r].resp.data.file_size = Len(got[r].body)

\* C7's case: the GET returned the two bytes 00 01
C7_Witness ==
  \E r \in Reqs :
    /\ Uploaded(r)
    /\ got[r].body = <<0, 1>>
    /\ req[r].resp.data.file_size = 2

\* the puts the store applied to key k, as indexes of putLog
PutsTo(k) == {i \in 1 .. Len(putLog) : putLog[i].key = k}

LastOf(S) == CHOOSE i \in S : \A j \in S : j <= i

\* C8: whatever the interleaving, the object at a key is the whole body of the put
\* the store applied last to that key, and every request whose put was applied
\* ends with 200 and the length of its own body as file_size.
C8_LastWriteWins ==
  /\ \A k \in DOMAIN store :
        PutsTo(k) # {} /\ store[k] = putLog[LastOf(PutsTo(k))].body
  /\ \A r \in Reqs :
        (Done(r) /\ Wrote(r))
          => /\ req[r].resp.status = 200
             /\ req[r].resp.data.file_size = Len(got[r].body)

\* C9: a 200 response of list_videos has at most max_keys videos, its count is
\* the number of videos, and every key listed starts with the prefix asked for.
C9_ListBounded ==
  \A r \in Reqs :
    (Done(r) /\ req[r].endpoint = "list_videos" /\ req[r].resp.status = 200)
      => LET videos == req[r].resp.data.videos
         IN /\ Len(videos) <= req[r].max_keys
            /\ req[r].resp.data.count = Len(videos)
            /\ \A i \in 1 .. Len(videos) :
                  /\ Len(req[r].prefix) <= Len(videos[i].key)
                  /\ \A j \in 1 .. Len(req[r].prefix) : videos[i].key[j] = req[r].prefix[j]

\* C9's case: the bucket holds more objects under the prefix than max_keys
C9_Witness ==
  \E r \in Reqs :
    /\ Done(r) /\ req[r].endpoint = "list_videos" /\ req[r].resp.status = 200
    /\ req[r].prefix = <<"d", "o", "u", "y", "i", "n", "/">>
    /\ req[r].max_keys = 1
    /\ req[r].resp.data.count = 1
    /\ Cardinality(DOMAIN store) = 3

\* the external calls of a request are a prefix of crawler, GET, put
C10_Order ==
  \A r \in Reqs :
    IsParse(r)
      => /\ Ops(r) \in {<<>>, <<"crawler">>, <<"crawler", "get">>, <<"crawler", "get", "put">>}
         /\ Len(calls[r]) >= 2
              => /\ Resolved(r)
                 /\ req[r].download_url.t = "str" /\ req[r].download_url.v # <<>>
                 /\ calls[r][2].url = req[r].download_url
         /\ Len(calls[r]) >= 3 => (got[r].kind = "ok" /\ got[r].body # <<>>)
         /\ got[r].kind \in {"status_error", "transport_error"}
              => (Done(r) /\ req[r].resp.status = 500 /\ Len(calls[r]) = 2)
         /\ Done(r) <=> req[r].resp # Unset

\* C10: within a parse_and_upload request the crawler, the GET and the put happen at
\* most once each and in that order, the GET only after a resolution that selected
\* a URL, the put only after the GET returned a non-empty body; a non-2xx status or
\* a transport error of the GET ends the request with 500 and no put; and every
\* request ends with a response, which never changes afterwards.
C10_OnceInOrder ==
  /\ []C10_Order
  /\ [][\A r \in Reqs : Done(r) => (Done(r)' /\ req'[r].resp = req[r].resp)]_vars
  /\ \A r \in Reqs : (req[r].pc # "idle") ~> Done(r)

\* C10's case: the GET answered a non-2xx status
C10_Witness ==
  \E r \in Reqs :
    /\ Done(r) /\ IsParse(r)
    /\ got[r].kind = "status_error"
    /\ req[r].resp.status = 500

====
